---- MODULE Spec2Model ----
(***************************************************************************)
(* LmdbBackingStorage (turbo-tasks-backend/src/lmdb_backing_storage.rs):   *)
(* the four LMDB key spaces, the snapshot writer and the lookup readers.   *)
(* A public operation is a sequence of steps of one thread; the steps of   *)
(* different threads interleave.  LMDB gives one write transaction at a    *)
(* time and read transactions that see the store as committed when they    *)
(* began.                                                                  *)
(***************************************************************************)
EXTENDS Integers, Sequences, FiniteSets, TLC

(* ------------------------------ bounds --------------------------------- *)
\* save_snapshot calls per run
MaxSnapshots == 2
\* batch elements (registration pairs and output deltas) handed over per run,
\* less the workload's slack
MaxBatchItems == 3
\* lookups start only while a telemetry counter is below this
MaxRestored == 1

Threads == {1, 2}
TaskIds == {1, 2}
TaskTypes == {"fnA", "fnB", "fnUnser"}
EncodableTypes == {"fnA", "fnB"}
ItemKeys == {"K1", "K2"}
ItemValues == {"V1", "V2", "Unser", "Undeser"}
OperationLists == {<<>>, <<"A", "B">>, <<"B", "A">>, <<"C">>, <<"C", "Unser">>}

(* ------------------------- Result / Option ----------------------------- *)
Ok(v) == [ok |-> TRUE, val |-> v]
Err(e) == [ok |-> FALSE, err |-> e]
Some(v) == [some |-> TRUE, v |-> v]
None == [some |-> FALSE]
unwrap_or(result, default) == IF result.ok THEN result.val ELSE default
\* the later value in place of the larger
Latest(a, b) == b
Max(a, b) == IF a >= b THEN a ELSE b

(* --------------------- fixed-width key codec --------------------------- *)
META_KEY_OPERATIONS == 0
META_KEY_NEXT_FREE_TASK_ID == 1

to_be_bytes(n) == << (n \div 16777216) % 256, (n \div 65536) % 256, (n \div 256) % 256, n % 256 >>
from_be_bytes(b) == ((b[1] * 256 + b[2]) * 256 + b[3]) * 256 + b[4]
IntKey(value) == to_be_bytes(value)
as_u32(result) ==
  IF ~result.ok THEN result
  ELSE IF Len(result.val) # 4 THEN Err("TryFromSlice")
  ELSE Ok(from_be_bytes(result.val))

(* ------------------ one key space inside a transaction ----------------- *)
\* tx.get: the value, NotFound, or (io_fault) any other lmdb error
tx_get(db_map, key, io_fault) ==
  IF io_fault THEN Err("Other")
  ELSE IF key \in DOMAIN db_map THEN Ok(db_map[key])
  ELSE Err("NotFound")
\* tx.put with WriteFlags::empty(): insert or overwrite
tx_put(db_map, key, value) ==
  [k \in (DOMAIN db_map) \cup {key} |-> IF k = key THEN value ELSE db_map[k]]
map_remove(map, key) == [k \in (DOMAIN map) \ {key} |-> map[k]]

(* ------------------------ extended-key codec --------------------------- *)
\* the native key limit (511-byte class), scaled to the model's byte strings
NativeMaxKeySize == 2
PhysicalKey(key) ==
  IF Len(key) <= NativeMaxKeySize THEN key ELSE SubSeq(key, 1, NativeMaxKeySize)
KeyRest(key) == SubSeq(key, NativeMaxKeySize + 1, Len(key))
\* the physical entry holds a chain: rest of the logical key -> value
extended_key_put(db_map, key, value) ==
  LET p == PhysicalKey(key)
      chain == IF p \in DOMAIN db_map THEN db_map[p] ELSE << >>
  IN  tx_put(db_map, p, tx_put(chain, KeyRest(key), value))
extended_key_get(db_map, key, io_fault) ==
  LET r == tx_get(db_map, PhysicalKey(key), io_fault)
  IN  IF ~r.ok THEN r
      ELSE IF KeyRest(key) \in DOMAIN r.val THEN Ok(r.val[KeyRest(key)])
      ELSE Err("NotFound")

(* ------------------------------ pot codec ------------------------------ *)
\* CachedTaskType: fnA serializes short, fnB longer than the native key limit
\* with fnA's bytes as its prefix; fnUnser does not serialize.
TaskTypeBytes(task_type) == IF task_type = "fnA" THEN <<7, 1>> ELSE <<7, 1, 4>>
pot_to_vec_task_type(task_type) ==
  IF task_type = "fnUnser" THEN Err("Serialize") ELSE Ok(TaskTypeBytes(task_type))
pot_from_slice_task_type(bytes) ==
  IF \E tt \in {"fnA", "fnB"} : TaskTypeBytes(tt) = bytes
  THEN Ok(CHOOSE tt \in {"fnA", "fnB"} : TaskTypeBytes(tt) = bytes)
  ELSE Err("Deserialize")

\* AnyOperation: "Unser" does not serialize
OpCode(op) == IF op = "A" THEN 1 ELSE IF op = "B" THEN 2 ELSE 3
OpOfCode(c) == IF c = 1 THEN "A" ELSE IF c = 2 THEN "B" ELSE "C"
pot_to_vec_operations(ops) ==
  IF \E i \in 1..Len(ops) : ops[i] = "Unser" THEN Err("Serialize")
  ELSE Ok([i \in 1..(Len(ops) + 1) |-> IF i = 1 THEN Len(ops) ELSE OpCode(ops[i - 1])])
pot_from_slice_operations(bytes) ==
  IF Len(bytes) = 0 THEN Err("Deserialize")
  ELSE IF Len(bytes) # bytes[1] + 1 THEN Err("Deserialize")
  ELSE IF \E i \in 2..Len(bytes) : bytes[i] \notin {1, 2, 3} THEN Err("Deserialize")
  ELSE Ok([i \in 1..bytes[1] |-> OpOfCode(bytes[i + 1])])

\* CachedDataItem: key K2 is of an optional kind; value "Unser" does not
\* serialize; value "Undeser" serializes to bytes that do not deserialize.
is_optional(item) == item.key = "K2"
KeyCode(key) == IF key = "K1" THEN 1 ELSE 2
KeyOfCode(c) == IF c = 1 THEN "K1" ELSE "K2"
ValueCode(value) == IF value = "V1" THEN 1 ELSE IF value = "V2" THEN 2 ELSE 3
ValueOfCode(c) == IF c = 1 THEN "V1" ELSE "V2"
from_key_and_value(key, value) == [key |-> key, value |-> value]
serialize_item(item) ==
  IF item.value = "Unser" THEN Err("Serialize")
  ELSE Ok(<<KeyCode(item.key), ValueCode(item.value)>>)
pot_to_vec_items(vec) ==
  IF \E i \in 1..Len(vec) : ~serialize_item(vec[i]).ok THEN Err("Serialize")
  ELSE Ok([i \in 1..(2 * Len(vec) + 1) |->
             IF i = 1 THEN Len(vec)
             ELSE serialize_item(vec[i \div 2]).val[(i % 2) + 1]])
pot_from_slice_items(bytes) ==
  IF Len(bytes) = 0 THEN Err("Deserialize")
  ELSE IF Len(bytes) # 2 * bytes[1] + 1 THEN Err("Deserialize")
  ELSE IF \E i \in 1..bytes[1] : bytes[2 * i] \notin {1, 2} \/ bytes[2 * i + 1] \notin {1, 2}
       THEN Err("Deserialize")
  ELSE Ok([i \in 1..bytes[1] |->
             from_key_and_value(KeyOfCode(bytes[2 * i]), ValueOfCode(bytes[2 * i + 1]))])

(* --------------------------- small helpers ----------------------------- *)
RECURSIVE Orders(_)
\* every iteration order of a HashMap's keys
Orders(S) ==
  IF S = {} THEN {<< >>}
  ELSE UNION {{<<x>> \o s : s \in Orders(S \ {x})} : x \in S}
\* for item in old_data { map.insert(key, value) }
CollectMap(vec) ==
  [k \in {vec[i].key : i \in 1..Len(vec)} |->
     vec[CHOOSE i \in 1..Len(vec) :
           vec[i].key = k /\ \A j \in (i + 1)..Len(vec) : vec[j].key # k].value]
EmptyDb ==
  [meta_db |-> << >>, data_db |-> << >>,
   forward_task_cache_db |-> << >>, reverse_task_cache_db |-> << >>]

(* ----------------------------- the state ------------------------------- *)
VARIABLES
  db,                      \* the committed contents of the four key spaces
  writer,                  \* the thread holding LMDB's write lock, 0 if none
  wtx,                     \* the open write transaction of save_snapshot and its locals
  pc,                      \* per thread: where it is in its public operation
  rd,                      \* per thread: its read transaction (argument, snapshot)
  ret,                     \* per thread: what its last lookup returned
  restored_tasks,          \* AtomicUsize
  restored_cache_entries,  \* AtomicUsize
  snapshots,               \* save_snapshot calls made so far
  items,                   \* batch elements consumed so far
  last,                    \* history: the last save_snapshot call that returned
  registered,              \* history: every (identity, id) pair ever committed
  telemetry,               \* history: lookups that found something, values reported
  workload                 \* what the execution engine sends in this run

vars ==
  <<db, writer, wtx, pc, rd, ret, restored_tasks, restored_cache_entries,
    snapshots, items, last, registered, telemetry, workload>>

IdleTxn ==
  [tx |-> EmptyDb, base |-> EmptyDb, next_task_id |-> 0, regs |-> << >>,
   operations |-> << >>, updated_items |-> << >>, expected |-> << >>,
   written |-> {}, swallowed |-> {}, later |-> FALSE]
IdleRd == [arg |-> 0, view |-> EmptyDb, expect |-> None]
NoRet == [op |-> "none"]
NoTelemetry ==
  [cache_found |-> 0, cache_reported |-> 0, tasks_found |-> 0, tasks_reported |-> 0]
NoLast ==
  [outcome |-> "none", step |-> "", base |-> EmptyDb, regs |-> << >>,
   operations |-> << >>, merged |-> << >>, expected |-> << >>, swallowed |-> {},
   dirty |-> FALSE, committed_operations |-> << >>,
   waiting |-> {}, later |-> FALSE]

\* history: the threads whose save_snapshot call is issued and has not yet
\* got the write transaction, as thread t's call returns
Waiting(t) == {u \in Threads \ {t} : pc[u] \in {"snap_drain", "snap_begin"}}

\* The calls the execution engine makes, by kind of run: which threads call
\* save_snapshot and which call the lookups, and what the batches hold.
Pairs(types, ids) == {[task_type |-> tt, task_id |-> id] : tt \in types, id \in ids}
Deltas(tasks, keys, values) ==
  {[task |-> task, key |-> key, value |-> value] : task \in tasks, key \in keys, value \in values}
Workloads ==
  { [name |-> "registrations", slack |-> 0, writers |-> {1}, readers |-> {}, lookups |-> {},
     types |-> {}, ids |-> {},
     pairs |-> Pairs({"fnA", "fnUnser"}, {1}) \cup Pairs({"fnB"}, TaskIds),
     deltas |-> {}, journals |-> {<< >>}],
    [name |-> "journal", slack |-> 0, writers |-> {1}, readers |-> {}, lookups |-> {},
     types |-> {}, ids |-> {},
     pairs |-> {}, deltas |-> {}, journals |-> OperationLists],
    [name |-> "merge", slack |-> 0, writers |-> {1}, readers |-> {}, lookups |-> {},
     types |-> {}, ids |-> {},
     pairs |-> {},
     deltas |-> Deltas({1}, {"K1"}, {Some("V1"), Some("V2"), None})
                  \cup Deltas({1}, {"K2"}, {Some("V1")}),
     journals |-> {<< >>}],
    [name |-> "encoding", slack |-> 0, writers |-> {1}, readers |-> {}, lookups |-> {},
     types |-> {}, ids |-> {},
     pairs |-> {},
     deltas |-> Deltas({1}, {"K1"}, {Some("V1")}) \cup Deltas({1}, {"K2"}, {Some("Unser")})
                  \cup Deltas({2}, {"K1"}, {Some("V1"), Some("Unser")}),
     journals |-> {<< >>}],
    [name |-> "drift", slack |-> 0, writers |-> {1}, readers |-> {}, lookups |-> {},
     types |-> {}, ids |-> {},
     pairs |-> {}, deltas |-> Deltas(TaskIds, {"K1"}, {Some("V1"), Some("Undeser")}),
     journals |-> {<< >>}],
    [name |-> "counter readers", slack |-> 2, writers |-> {1}, readers |-> {2},
     lookups |-> {"next_free_task_id"},
     types |-> {}, ids |-> {},
     pairs |-> Pairs({"fnB"}, {2}), deltas |-> {}, journals |-> {<< >>}],
    [name |-> "cache readers", slack |-> 2, writers |-> {1}, readers |-> {2},
     lookups |-> {"forward_lookup", "reverse_lookup"},
     types |-> {"fnB"}, ids |-> {2},
     pairs |-> Pairs({"fnB"}, {2}), deltas |-> {}, journals |-> {<< >>}],
    [name |-> "journal readers", slack |-> 2, writers |-> {1}, readers |-> {2},
     lookups |-> {"uncompleted_operations"},
     types |-> {}, ids |-> {},
     pairs |-> {}, deltas |-> {}, journals |-> {<< >>, <<"C">>}],
    [name |-> "data readers", slack |-> 2, writers |-> {1}, readers |-> {2},
     lookups |-> {"lookup_data"},
     types |-> {}, ids |-> {1},
     pairs |-> {}, deltas |-> Deltas({1}, {"K1"}, {Some("V1"), None}),
     journals |-> {<< >>}],
    [name |-> "corrupt readers", slack |-> 2, writers |-> {1}, readers |-> {2},
     lookups |-> {"lookup_data"},
     types |-> {}, ids |-> {1},
     pairs |-> {}, deltas |-> Deltas({1}, {"K1"}, {Some("Undeser")}), journals |-> {<< >>}],
    [name |-> "lifecycle", slack |-> 0, writers |-> {1}, readers |-> {}, lookups |-> {},
     types |-> {}, ids |-> {},
     pairs |-> Pairs({"fnB"}, {1}), deltas |-> Deltas({1}, {"K1"}, {Some("V1"), None}),
     journals |-> {<< >>}],
    [name |-> "cache writers", slack |-> 1, writers |-> Threads, readers |-> {}, lookups |-> {},
     types |-> {}, ids |-> {},
     pairs |-> {[task_type |-> "fnA", task_id |-> 1], [task_type |-> "fnB", task_id |-> 2]},
     deltas |-> {}, journals |-> {<<"C">>}],
    [name |-> "data writers", slack |-> 1, writers |-> Threads, readers |-> {}, lookups |-> {},
     types |-> {}, ids |-> {},
     pairs |-> {}, deltas |-> Deltas({1}, ItemKeys, {Some("V1")}), journals |-> {<< >>}] }

Init ==
  /\ db = EmptyDb
  /\ writer = 0
  /\ wtx = IdleTxn
  /\ pc = [t \in Threads |-> "idle"]
  /\ rd = [t \in Threads |-> IdleRd]
  /\ ret = [t \in Threads |-> NoRet]
  /\ restored_tasks = 0
  /\ restored_cache_entries = 0
  /\ snapshots = 0
  /\ items = 0
  /\ last = NoLast
  /\ registered = {}
  /\ telemetry = NoTelemetry
  /\ workload \in Workloads

(* ------------------- the lookups, on one view of the store ------------- *)
ReadFaults == {"none", "begin", "get", "commit"}

\* a counter read that defaults to 0
next_free_task_id_or_zero(view, fault) ==
  LET get == IF fault = "begin" THEN Err("Other")
             ELSE as_u32(tx_get(view.meta_db, IntKey(META_KEY_NEXT_FREE_TASK_ID), fault = "get"))
  IN  unwrap_or(get, 0)

next_free_task_id(view, fault) ==
  LET get == IF fault = "begin" THEN Err("Other")
             ELSE as_u32(tx_get(view.meta_db, IntKey(META_KEY_NEXT_FREE_TASK_ID), fault = "get"))
  IN  unwrap_or(get, 1)

uncompleted_operations(view, fault) ==
  LET operations == IF fault = "begin" THEN Err("Other")
                    ELSE tx_get(view.meta_db, IntKey(META_KEY_OPERATIONS), fault = "get")
      get == IF ~operations.ok THEN operations ELSE pot_from_slice_operations(operations.val)
  IN  unwrap_or(get, << >>)

\* a forward lookup that answers with any entry stored under the native key
forward_lookup_by_native_key(view, task_type, fault) ==
  LET enc == pot_to_vec_task_type(task_type)
      chain == tx_get(view.forward_task_cache_db, PhysicalKey(enc.val), FALSE)
  IN  IF ~enc.ok \/ ~chain.ok \/ fault # "none" THEN None
      ELSE Some(from_be_bytes(chain.val[CHOOSE rest \in DOMAIN chain.val : TRUE]))

forward_lookup_task_cache(view, task_type, fault) ==
  LET enc == pot_to_vec_task_type(task_type)
      bytes == extended_key_get(view.forward_task_cache_db, enc.val, fault = "get")
      lookup ==
        IF fault = "begin" THEN Err("Other")
        ELSE IF ~enc.ok THEN enc
        ELSE IF ~bytes.ok THEN (IF bytes.err = "NotFound" THEN Ok(None) ELSE bytes)
        ELSE IF Len(bytes.val) # 4 THEN Err("TryFromSlice")
        ELSE IF fault = "commit" THEN Err("Other")
        ELSE Ok(Some(from_be_bytes(bytes.val)))
  IN  unwrap_or(lookup, None)

reverse_lookup_task_cache(view, task_id, fault) ==
  LET bytes == tx_get(view.reverse_task_cache_db, IntKey(task_id), fault = "get")
      result == pot_from_slice_task_type(bytes.val)
      lookup ==
        IF fault = "begin" THEN Err("Other")
        ELSE IF ~bytes.ok THEN (IF bytes.err = "NotFound" THEN Ok(None) ELSE bytes)
        ELSE IF ~result.ok THEN result
        ELSE IF fault = "commit" THEN Err("Other")
        ELSE Ok(Some(result.val))
  IN  unwrap_or(lookup, None)

lookup_data(view, task_id, fault) ==
  LET bytes == tx_get(view.data_db, IntKey(task_id), fault = "get")
      result == pot_from_slice_items(bytes.val)
      lookup ==
        IF fault = "begin" THEN Err("Other")
        ELSE IF ~bytes.ok THEN (IF bytes.err = "NotFound" THEN Ok(<< >>) ELSE bytes)
        ELSE IF ~result.ok THEN result
        ELSE IF fault = "commit" THEN Err("Other")
        ELSE Ok(result.val)
  IN  unwrap_or(lookup, << >>)

(* ----------------------------- save_snapshot --------------------------- *)
\* a dropped transaction whose writes reach the store all the same
ReturnErrKeepsWrites(t, step) ==
  /\ db' = wtx.tx
  /\ writer' = 0
  /\ wtx' = IdleTxn
  /\ pc' = [pc EXCEPT ![t] = "idle"]
  /\ last' = [NoLast EXCEPT !.outcome = "err", !.step = step, !.base = wtx.base,
                            !.dirty = (wtx.tx # wtx.base),
                            !.merged = IF step = "serialize data item"
                                       THEN wtx.updated_items ELSE << >>,
                            !.committed_operations = last.committed_operations,
                            !.waiting = Waiting(t), !.later = wtx.later]
  /\ UNCHANGED <<rd, ret, restored_tasks, restored_cache_entries, snapshots, items,
                 registered, telemetry, workload>>

\* an error return that leaves the write transaction open
ReturnErrKeepsTxn(t, step) ==
  /\ pc' = [pc EXCEPT ![t] = "idle"]
  /\ last' = [NoLast EXCEPT !.outcome = "err", !.step = step, !.base = wtx.base,
                            !.dirty = (wtx.tx # wtx.base),
                            !.committed_operations = last.committed_operations,
                            !.waiting = Waiting(t), !.later = wtx.later]
  /\ UNCHANGED <<db, writer, wtx, rd, ret, restored_tasks, restored_cache_entries,
                 snapshots, items, registered, telemetry, workload>>

\* `?` on an error inside the transaction: the RwTransaction is dropped,
\* which aborts it, and the error is returned.
ReturnErr(t, step) ==
  /\ db' = db
  /\ writer' = 0
  /\ wtx' = IdleTxn
  /\ pc' = [pc EXCEPT ![t] = "idle"]
  /\ last' = [NoLast EXCEPT !.outcome = "err", !.step = step, !.base = wtx.base,
                            !.dirty = (wtx.tx # wtx.base),
                            !.merged = IF step = "serialize data item"
                                       THEN wtx.updated_items ELSE << >>,
                            !.committed_operations = last.committed_operations,
                            !.waiting = Waiting(t), !.later = wtx.later]
  /\ UNCHANGED <<rd, ret, restored_tasks, restored_cache_entries, snapshots, items,
                 registered, telemetry, workload>>

\* a plain read in place of the read-and-reset
load(value, mask) == value

\* AtomicUsize::fetch_and, used with mask 0 only: the new value
fetch_and(value, mask) == IF mask = 0 THEN 0 ELSE value

\* AtomicUsize::fetch_add: the new value
fetch_add(value, n) == value + n

\* lines 140-142: restored_cache_entries.fetch_and(0)
SnapCall(t) ==
  /\ pc[t] = "idle"
  /\ t \in workload.writers
  /\ snapshots < MaxSnapshots
  /\ snapshots' = snapshots + 1
  /\ restored_cache_entries' = fetch_and(restored_cache_entries, 0)
  /\ telemetry' = [telemetry EXCEPT !.cache_reported = @ + restored_cache_entries]
  /\ pc' = [pc EXCEPT ![t] = "snap_drain"]
  /\ UNCHANGED <<db, writer, wtx, rd, ret, restored_tasks, items, last, registered, workload>>

\* lines 143-148: restored_tasks.fetch_and(0)
SnapDrainTasks(t) ==
  /\ pc[t] = "snap_drain"
  /\ restored_tasks' = fetch_and(restored_tasks, 0)
  /\ telemetry' = [telemetry EXCEPT !.tasks_reported = @ + restored_tasks]
  /\ pc' = [pc EXCEPT ![t] = "snap_begin"]
  /\ UNCHANGED <<db, writer, wtx, rd, ret, restored_cache_entries, snapshots, items, last,
                 registered, workload>>

\* lines 165-167: begin_rw_txn, read the counter (any error reads as 1)
SnapBegin(t) ==
  /\ pc[t] = "snap_begin"
  /\ writer = 0
  /\ \E fault \in {"none", "begin", "get"} :
       IF fault = "begin"
       THEN /\ pc' = [pc EXCEPT ![t] = "idle"]
            /\ last' = [NoLast EXCEPT !.outcome = "err", !.step = "begin_rw_txn",
                                      !.base = db,
                                      !.committed_operations = last.committed_operations,
                                      !.waiting = Waiting(t)]
            /\ UNCHANGED <<db, writer, wtx>>
       ELSE /\ fault = "get" => IntKey(META_KEY_NEXT_FREE_TASK_ID) \in DOMAIN db.meta_db
            /\ writer' = t
            /\ wtx' = [IdleTxn EXCEPT
                 !.tx = db, !.base = db,
                 !.next_task_id =
                    unwrap_or(as_u32(tx_get(db.meta_db, IntKey(META_KEY_NEXT_FREE_TASK_ID),
                                            fault = "get")), 1),
                 !.swallowed = IF fault = "get" THEN {"counter"} ELSE {},
                 !.later = (t \in last.waiting)]
            /\ pc' = [pc EXCEPT ![t] = "snap_regs"]
            /\ UNCHANGED <<db, last>>
  /\ UNCHANGED <<rd, ret, restored_tasks, restored_cache_entries, snapshots, items,
                 registered, telemetry, workload>>

\* forward entry written only the first time an identity is seen
register_keeps_first(tx, task_type_bytes, task_id) ==
  [tx EXCEPT
     !.forward_task_cache_db =
        IF extended_key_get(tx.forward_task_cache_db, task_type_bytes, FALSE).ok
        THEN tx.forward_task_cache_db
        ELSE extended_key_put(tx.forward_task_cache_db, task_type_bytes, to_be_bytes(task_id)),
     !.reverse_task_cache_db =
        tx_put(tx.reverse_task_cache_db, IntKey(task_id), task_type_bytes)]

\* forward entries of earlier registrations discarded
register_into_fresh_forward(tx, task_type_bytes, task_id) ==
  [tx EXCEPT
     !.forward_task_cache_db =
        extended_key_put(<< >>, task_type_bytes, to_be_bytes(task_id)),
     !.reverse_task_cache_db =
        tx_put(tx.reverse_task_cache_db, IntKey(task_id), task_type_bytes)]

\* reverse entry never written
register_forward_only(tx, task_type_bytes, task_id) ==
  [tx EXCEPT
     !.forward_task_cache_db =
        extended_key_put(tx.forward_task_cache_db, task_type_bytes, to_be_bytes(task_id))]

\* lines 184-198: the two puts of one registration
register(tx, task_type_bytes, task_id) ==
  [tx EXCEPT
     !.forward_task_cache_db =
        extended_key_put(tx.forward_task_cache_db, task_type_bytes, to_be_bytes(task_id)),
     !.reverse_task_cache_db =
        tx_put(tx.reverse_task_cache_db, IntKey(task_id), task_type_bytes)]

RECURSIVE register_all(_, _, _)
\* lines 168-201: the whole registration loop on a batch that serializes
register_all(tx, next_task_id, regs) ==
  IF Len(regs) = 0 THEN [tx |-> tx, next_task_id |-> next_task_id]
  ELSE register_all(
         register(tx, pot_to_vec_task_type(regs[1].task_type).val, regs[1].task_id),
         Max(next_task_id, regs[1].task_id + 1),
         Tail(regs))

\* lines 168-201: one iteration of the registration loop
\* (ids stay far below 2^32, so task_id + 1 does not wrap)
SnapRegister(t) ==
  /\ pc[t] = "snap_regs"
  /\ items < MaxBatchItems - workload.slack
  /\ \E pair \in workload.pairs, fault \in {"none", "put_forward", "put_reverse"} :
       LET task_type == pair.task_type
           task_id == pair.task_id
           task_type_bytes == pot_to_vec_task_type(task_type)
       IN  IF ~task_type_bytes.ok
           THEN fault = "none" /\ ReturnErr(t, "serialize task cache key")
           ELSE IF fault # "none"
           THEN ReturnErr(t, fault)
           ELSE /\ wtx' = [wtx EXCEPT
                     !.tx = register(wtx.tx, task_type_bytes.val, task_id),
                     !.next_task_id = Max(wtx.next_task_id, task_id + 1),
                     !.regs = Append(wtx.regs, pair)]
                /\ items' = items + 1
                /\ UNCHANGED <<db, writer, pc, rd, ret, restored_tasks,
                               restored_cache_entries, snapshots, last, registered, telemetry, workload>>

\* the new list appended to the stored one
put_operations_appending(meta_db, bytes) ==
  LET key == IntKey(META_KEY_OPERATIONS)
      old == IF key \in DOMAIN meta_db THEN meta_db[key] ELSE <<0>>
  IN  tx_put(meta_db, key, <<old[1] + bytes[1]>> \o Tail(old) \o Tail(bytes))

\* lines 211-217: the journal overwrites the stored one
put_operations(meta_db, bytes) == tx_put(meta_db, IntKey(META_KEY_OPERATIONS), bytes)

\* lines 202-218: write the counter, serialize and write the journal
SnapMeta(t) ==
  /\ pc[t] = "snap_regs"
  /\ \E operations \in workload.journals,
        fault \in {"none", "put_counter", "put_operations"} :
       LET meta1 == tx_put(wtx.tx.meta_db, IntKey(META_KEY_NEXT_FREE_TASK_ID),
                           to_be_bytes(wtx.next_task_id))
           bytes == pot_to_vec_operations(operations)
           meta2 == put_operations(meta1, bytes.val)
       IN  IF fault = "put_counter"
           THEN ReturnErr(t, fault)
           ELSE IF ~bytes.ok
           THEN fault = "none" /\ ReturnErr(t, "serialize operations")
           ELSE IF fault = "put_operations"
           THEN ReturnErr(t, fault)
           ELSE /\ wtx' = [wtx EXCEPT !.tx.meta_db = meta2, !.operations = operations]
                /\ pc' = [pc EXCEPT ![t] = "snap_merge"]
                /\ UNCHANGED <<db, writer, rd, ret, restored_tasks, restored_cache_entries,
                               snapshots, items, last, registered, telemetry, workload>>

\* lines 222-250: one iteration of the delta loop
SnapMergeDelta(t) ==
  /\ pc[t] = "snap_merge"
  /\ items < MaxBatchItems - workload.slack
  /\ \E delta \in workload.deltas, io_fault \in BOOLEAN :
       LET task == delta.task
           key == delta.key
           value == delta.value
           occupied == task \in DOMAIN wtx.updated_items
           old_data == tx_get(wtx.tx.data_db, IntKey(task), io_fault)
           decoded == pot_from_slice_items(old_data.val)
           map == IF occupied THEN wtx.updated_items[task]
                  ELSE IF old_data.ok THEN CollectMap(decoded.val)
                  ELSE << >>
           data == IF value.some THEN tx_put(map, key, value.v) ELSE map_remove(map, key)
           \* history: the same updates applied to what the store holds for the task
           stored == lookup_data(wtx.base, task, "none")
           before == IF task \in DOMAIN wtx.expected THEN wtx.expected[task]
                     ELSE CollectMap(stored)
           after == IF value.some THEN tx_put(before, key, value.v)
                    ELSE map_remove(before, key)
       IN  /\ io_fault => ~occupied /\ IntKey(task) \in DOMAIN wtx.tx.data_db
           /\ IF ~occupied /\ old_data.ok /\ ~decoded.ok
              THEN ReturnErr(t, "deserialize old value")
              ELSE /\ wtx' = [wtx EXCEPT
                        !.updated_items = tx_put(wtx.updated_items, task, data),
                        !.expected = tx_put(wtx.expected, task, after),
                        !.swallowed = IF io_fault THEN wtx.swallowed \cup {"data"}
                                      ELSE wtx.swallowed]
                   /\ items' = items + 1
                   /\ UNCHANGED <<db, writer, pc, rd, ret, restored_tasks,
                                  restored_cache_entries, snapshots, last, registered, telemetry, workload>>

Serializable(item) == serialize_item(item).ok

\* every non-serializable item dropped, required ones too
serialize_task_data_drops_all(vec) == pot_to_vec_items(SelectSeq(vec, Serializable))

\* lines 256-302: the bytes of a task's items; non-serializable optional
\* items are dropped, a non-serializable required item is an error
\* (the build without the verify_serialization feature)
serialize_task_data(vec) ==
  LET whole == pot_to_vec_items(vec)
      retained == SelectSeq(vec, Serializable)
      error == \E i \in 1..Len(vec) : ~Serializable(vec[i]) /\ ~is_optional(vec[i])
  IN  IF whole.ok THEN whole
      ELSE IF error THEN Err("Serialize")
      ELSE pot_to_vec_items(retained)

\* a write that deletes the record of a task left without items
put_data_or_delete(data_db, task_id, value) ==
  IF value = pot_to_vec_items(<< >>).val THEN map_remove(data_db, IntKey(task_id))
  ELSE tx_put(data_db, IntKey(task_id), value)

\* lines 303-309: the record of a task is put, whatever it holds
put_data(data_db, task_id, value) == tx_put(data_db, IntKey(task_id), value)

\* lines 251-311: one iteration of the write loop (HashMap order)
SnapWriteTask(t) ==
  /\ pc[t] \in {"snap_merge", "snap_write"}
  /\ \E task_id \in (DOMAIN wtx.updated_items) \ wtx.written :
     \E order \in Orders(DOMAIN wtx.updated_items[task_id]), put_fault \in BOOLEAN :
       LET data == wtx.updated_items[task_id]
           vec == [i \in 1..Len(order) |-> from_key_and_value(order[i], data[order[i]])]
           value == serialize_task_data(vec)
       IN  IF ~value.ok
           THEN ~put_fault /\ ReturnErr(t, "serialize data item")
           ELSE IF put_fault
           THEN ReturnErr(t, "put_data")
           ELSE /\ wtx' = [wtx EXCEPT
                     !.tx.data_db = put_data(wtx.tx.data_db, task_id, value.val),
                     !.written = wtx.written \cup {task_id}]
                /\ pc' = [pc EXCEPT ![t] = "snap_write"]
                /\ UNCHANGED <<db, writer, rd, ret, restored_tasks, restored_cache_entries,
                               snapshots, items, last, registered, telemetry, workload>>

\* lines 312-318: commit
SnapCommit(t) ==
  /\ pc[t] \in {"snap_merge", "snap_write"}
  /\ DOMAIN wtx.updated_items \subseteq wtx.written
  /\ \E fault \in BOOLEAN :
       IF fault
       THEN ReturnErr(t, "commit")
       ELSE /\ db' = wtx.tx
            /\ writer' = 0
            /\ wtx' = IdleTxn
            /\ pc' = [pc EXCEPT ![t] = "idle"]
            /\ last' = [outcome |-> "ok", step |-> "", base |-> wtx.base, regs |-> wtx.regs,
                        operations |-> wtx.operations,
                        merged |-> wtx.updated_items, expected |-> wtx.expected,
                        swallowed |-> wtx.swallowed,
                        dirty |-> (wtx.tx # wtx.base),
                        committed_operations |-> wtx.operations,
                        waiting |-> Waiting(t), later |-> wtx.later]
            /\ registered' = registered \cup {wtx.regs[i] : i \in 1..Len(wtx.regs)}
            /\ UNCHANGED <<rd, ret, restored_tasks, restored_cache_entries, snapshots, items, telemetry, workload>>

(* ------------------------------ the readers ---------------------------- *)
\* a read that sees whatever is committed at the time of the read
ReadLatest(t) == db

\* what a thread's read-only transaction sees: the store as committed when
\* the transaction began
ReadView(t) == rd[t].view

BeginRead(t, op, arg, expect) ==
  /\ pc[t] = "idle"
  /\ t \in workload.readers
  /\ op \in workload.lookups
  /\ pc' = [pc EXCEPT ![t] = op]
  /\ rd' = [rd EXCEPT ![t] = [arg |-> arg, view |-> db, expect |-> expect]]
  /\ UNCHANGED <<db, wtx, ret, restored_tasks, restored_cache_entries, snapshots, items, last,
                 registered, telemetry, workload>>

Return(t, op, val, latest, fault) ==
  /\ pc' = [pc EXCEPT ![t] = "idle"]
  /\ ret' = [ret EXCEPT ![t] = [op |-> op, arg |-> rd[t].arg, val |-> val,
                                expect |-> rd[t].expect, latest |-> latest,
                                faulted |-> (fault # "none")]]
  /\ rd' = [rd EXCEPT ![t] = IdleRd]
  /\ UNCHANGED <<db, wtx, snapshots, items, last, registered, workload>>

\* lines 114-122: next_free_task_id opens a read-write transaction
NextFreeBegin(t) ==
  /\ writer = 0
  /\ writer' = t
  /\ BeginRead(t, "next_free_task_id", 0, next_free_task_id(db, "none"))

NextFreeReturn(t) ==
  /\ pc[t] = "next_free_task_id"
  /\ writer' = 0
  /\ \E fault \in {"none", "begin", "get"} :
       Return(t, "next_free_task_id", next_free_task_id(db, fault),
              next_free_task_id(db, "none"), fault)
  /\ UNCHANGED <<restored_tasks, restored_cache_entries, telemetry>>

\* lines 124-132
UncompletedBegin(t) ==
  /\ BeginRead(t, "uncompleted_operations", 0, uncompleted_operations(db, "none"))
  /\ UNCHANGED writer

UncompletedReturn(t) ==
  /\ pc[t] = "uncompleted_operations"
  /\ \E fault \in {"none", "begin", "get"} :
       Return(t, "uncompleted_operations", uncompleted_operations(ReadView(t), fault),
              uncompleted_operations(db, "none"), fault)
  /\ UNCHANGED <<writer, restored_tasks, restored_cache_entries, telemetry>>

\* lines 321-352
ForwardLookupBegin(t) ==
  /\ restored_cache_entries < MaxRestored
  /\ \E task_type \in workload.types :
       BeginRead(t, "forward_lookup", task_type, forward_lookup_task_cache(db, task_type, "none"))
  /\ UNCHANGED writer

\* a lookup that counts every call, found or not
ForwardLookupReturnCountsAll(t) ==
  /\ pc[t] = "forward_lookup"
  /\ \E fault \in ReadFaults :
       LET id == forward_lookup_task_cache(ReadView(t), rd[t].arg, fault)
       IN  /\ Return(t, "forward_lookup", id,
                     forward_lookup_task_cache(db, rd[t].arg, "none"), fault)
           /\ restored_cache_entries' = fetch_add(restored_cache_entries, 1)
           /\ telemetry' = [telemetry EXCEPT !.cache_found = IF id = None THEN @ ELSE @ + 1]
  /\ UNCHANGED <<writer, restored_tasks>>

ForwardLookupReturn(t) ==
  /\ pc[t] = "forward_lookup"
  /\ \E fault \in ReadFaults :
       LET id == forward_lookup_task_cache(ReadView(t), rd[t].arg, fault)
       IN  /\ Return(t, "forward_lookup", id,
                     forward_lookup_task_cache(db, rd[t].arg, "none"), fault)
           /\ restored_cache_entries' =
                IF id.some THEN fetch_add(restored_cache_entries, 1)
                ELSE restored_cache_entries
           /\ telemetry' = [telemetry EXCEPT !.cache_found = IF id = None THEN @ ELSE @ + 1]
  /\ UNCHANGED <<writer, restored_tasks>>

\* lines 354-383
ReverseLookupBegin(t) ==
  /\ restored_cache_entries < MaxRestored
  /\ \E task_id \in workload.ids :
       BeginRead(t, "reverse_lookup", task_id, reverse_lookup_task_cache(db, task_id, "none"))
  /\ UNCHANGED writer

ReverseLookupReturn(t) ==
  /\ pc[t] = "reverse_lookup"
  /\ \E fault \in ReadFaults :
       LET result == reverse_lookup_task_cache(ReadView(t), rd[t].arg, fault)
       IN  /\ Return(t, "reverse_lookup", result,
                     reverse_lookup_task_cache(db, rd[t].arg, "none"), fault)
           /\ restored_cache_entries' =
                IF result.some THEN fetch_add(restored_cache_entries, 1)
                ELSE restored_cache_entries
           /\ telemetry' =
                [telemetry EXCEPT !.cache_found = IF result = None THEN @ ELSE @ + 1]
  /\ UNCHANGED <<writer, restored_tasks>>

\* lines 385-417
LookupDataBegin(t) ==
  /\ restored_tasks < MaxRestored
  /\ \E task_id \in workload.ids :
       BeginRead(t, "lookup_data", task_id, lookup_data(db, task_id, "none"))
  /\ UNCHANGED writer

LookupDataReturn(t) ==
  /\ pc[t] = "lookup_data"
  /\ \E fault \in ReadFaults :
       LET result == lookup_data(ReadView(t), rd[t].arg, fault)
       IN  /\ Return(t, "lookup_data", result, lookup_data(db, rd[t].arg, "none"), fault)
           /\ restored_tasks' =
                IF result # << >> THEN fetch_add(restored_tasks, 1) ELSE restored_tasks
           /\ telemetry' =
                [telemetry EXCEPT !.tasks_found = IF Len(result) = 0 THEN @ ELSE @ + 1]
  /\ UNCHANGED <<writer, restored_cache_entries>>

(* --------------------------- the specification ------------------------- *)
Next ==
  \E t \in Threads :
    \/ SnapCall(t)
    \/ SnapDrainTasks(t)
    \/ SnapBegin(t)
    \/ SnapRegister(t)
    \/ SnapMeta(t)
    \/ SnapMergeDelta(t)
    \/ SnapWriteTask(t)
    \/ SnapCommit(t)
    \/ NextFreeBegin(t)
    \/ NextFreeReturn(t)
    \/ UncompletedBegin(t)
    \/ UncompletedReturn(t)
    \/ ForwardLookupBegin(t)
    \/ ForwardLookupReturn(t)
    \/ ReverseLookupBegin(t)
    \/ ReverseLookupReturn(t)
    \/ LookupDataBegin(t)
    \/ LookupDataReturn(t)

Spec == Init /\ [][Next]_vars

(* ------------------------------ properties ----------------------------- *)
EncodableValues == {"V1", "V2"}
SnapshotLookups ==
  {"uncompleted_operations", "forward_lookup", "reverse_lookup", "lookup_data"}
\* what a lookup answers when it finds nothing
Absent(op) == IF op \in {"forward_lookup", "reverse_lookup"} THEN None ELSE << >>
LargestId(regs) ==
  IF Len(regs) = 0 THEN 0
  ELSE LET ids == {regs[i].task_id : i \in 1..Len(regs)}
       IN  CHOOSE m \in ids : \A id \in ids : id <= m
Item(data, k) == from_key_and_value(k, data[k])
RequiredUnserializable(data) ==
  \E k \in DOMAIN data : ~Serializable(Item(data, k)) /\ ~is_optional(Item(data, k))
SerializableItems(data) ==
  {Item(data, k) : k \in {j \in DOMAIN data : Serializable(Item(data, j))}}

\* C1: a save_snapshot that returned an error has changed nothing in the
\* store: the four key spaces are what they were before the call.
C1_FailedSnapshotLeavesStore ==
  last.outcome = "err" => db = last.base
\* a call that had written inside its transaction to a non-empty store, then failed
C1_FailedAfterWrites ==
  last.outcome = "err" /\ last.dirty /\ last.base # EmptyDb

\* C2: the stored journal is the list handed to the most recent successful
\* save_snapshot, replaced and never appended to; an empty list stores empty.
C2_JournalIsLastCommitted ==
  /\ uncompleted_operations(db, "none") = last.committed_operations
  /\ last.outcome = "ok" => uncompleted_operations(db, "none") = last.operations
\* a successful snapshot with journal C over a stored journal A, B
C2_JournalReplaced ==
  /\ last.outcome = "ok"
  /\ last.operations = <<"C">>
  /\ uncompleted_operations(last.base, "none") = <<"A", "B">>

\* C3: after a successful snapshot the stored counter is the larger of its
\* previous value (1 when absent) and one more than the largest id registered
\* by the batch; it never decreases.
C3_CounterIsMaxOfPreviousAndBatch ==
  last.outcome = "ok" =>
    LET previous == next_free_task_id(last.base, "none")
        now == next_free_task_id(db, "none")
    IN  /\ now = Max(previous, LargestId(last.regs) + 1)
        /\ now >= previous

\* C4 as written: forward[identity] = id exactly when reverse[id] = identity.
C4_MutuallyInverse ==
  \A tt \in EncodableTypes, id \in TaskIds :
    (forward_lookup_task_cache(db, tt, "none") = Some(id))
      <=> (reverse_lookup_task_cache(db, id, "none") = Some(tt))
\* no identity committed with two ids, no id committed with two identities
RegisteredOnce ==
  \A p \in registered, q \in registered :
    (p.task_type = q.task_type) <=> (p.task_id = q.task_id)
\* C4: the two caches are mutually inverse as long as no identity has been
\* registered with two ids and no id with two identities.
C4_InverseWhenRegisteredOnce ==
  RegisteredOnce => C4_MutuallyInverse
\* a short and a long identity committed, each with its own id
C4_TwoIdentitiesRegistered ==
  /\ RegisteredOnce
  /\ \E p \in registered, q \in registered :
       p.task_type = "fnA" /\ q.task_type = "fnB"

\* C5: every task id that is a key of the data key space or of the reverse
\* task cache is below the stored counter.
C5_StoredIdsBelowCounter ==
  \A id \in TaskIds :
    (IntKey(id) \in DOMAIN db.data_db \/ IntKey(id) \in DOMAIN db.reverse_task_cache_db)
      => id < next_free_task_id(db, "none")

\* C6 as written: after a successful snapshot every pair of its batch
\* resolves in both directions.
C6_EveryPairResolves ==
  last.outcome = "ok" =>
    \A i \in 1..Len(last.regs) :
      /\ forward_lookup_task_cache(db, last.regs[i].task_type, "none")
           = Some(last.regs[i].task_id)
      /\ reverse_lookup_task_cache(db, last.regs[i].task_id, "none")
           = Some(last.regs[i].task_type)
\* C6: after a successful snapshot, forward_lookup(identity) is the id of the
\* last pair of the batch naming that identity and reverse_lookup(id) is the
\* identity of the last pair naming that id, for identities of any length.
C6_LastPairResolves ==
  last.outcome = "ok" =>
    \A i \in 1..Len(last.regs) :
      /\ (\A j \in (i + 1)..Len(last.regs) :
            last.regs[j].task_type # last.regs[i].task_type)
           => forward_lookup_task_cache(db, last.regs[i].task_type, "none")
                = Some(last.regs[i].task_id)
      /\ (\A j \in (i + 1)..Len(last.regs) :
            last.regs[j].task_id # last.regs[i].task_id)
           => reverse_lookup_task_cache(db, last.regs[i].task_id, "none")
                = Some(last.regs[i].task_type)
\* a committed batch that names the long identity twice, with different ids
C6_LongIdentityOverridden ==
  /\ last.outcome = "ok"
  /\ \E i \in 1..Len(last.regs), j \in 1..Len(last.regs) :
       /\ i < j
       /\ last.regs[i].task_type = "fnB"
       /\ last.regs[j].task_type = "fnB"
       /\ last.regs[i].task_id # last.regs[j].task_id

\* C7, for batches whose resulting items all encode and decode: after a
\* successful snapshot each task named by a delta reads back as its stored
\* items with the deltas applied in order, one entry per key.
C7_RecordIsStoredItemsPlusDeltas ==
  (/\ last.outcome = "ok"
   /\ \A task \in DOMAIN last.expected : \A k \in DOMAIN last.expected[task] :
        last.expected[task][k] \in EncodableValues)
  => \A task \in DOMAIN last.expected :
       LET record == lookup_data(db, task, "none")
       IN  /\ CollectMap(record) = last.expected[task]
           /\ Len(record) = Cardinality(DOMAIN last.expected[task])

\* C8: a lookup answers from the store as committed when its read
\* transaction began, whatever commits or is in flight before it returns;
\* a failure inside the lookup can only turn the answer into "nothing".
C8_LookupAnswersFromItsSnapshot ==
  \A t \in Threads :
    ret[t].op \in SnapshotLookups =>
      \/ ret[t].val = ret[t].expect
      \/ ret[t].faulted /\ ret[t].val = Absent(ret[t].op)
\* a lookup that returned its pre-commit answer after a commit changed it
C8_ReturnedAfterCommit ==
  \E t \in Threads :
    /\ ret[t].op \in SnapshotLookups
    /\ ~ret[t].faulted
    /\ ret[t].val = ret[t].expect
    /\ ret[t].val # ret[t].latest

\* C9: a save_snapshot that failed to read the stored counter or a task's
\* stored items (other than by key-not-found) does not commit.
C9_ReadFailureAborts ==
  last.outcome = "ok" => last.swallowed = {}

\* C10: a snapshot commits only if no item of any written task is both
\* required and non-encodable, and then each task's record holds exactly its
\* encodable items; a required non-encodable item is an error that leaves the
\* store untouched, and only such an item makes item encoding an error.
C10_EncodeFailurePolicy ==
  /\ last.outcome = "ok" =>
       \A task \in DOMAIN last.merged :
         LET data == last.merged[task]
             bytes == db.data_db[IntKey(task)]
         IN  /\ ~RequiredUnserializable(data)
             /\ IntKey(task) \in DOMAIN db.data_db
             /\ Len(bytes) = 2 * Cardinality(SerializableItems(data)) + 1
             /\ {<<bytes[2 * i], bytes[2 * i + 1]>> : i \in 1..bytes[1]}
                  = {serialize_item(item).val : item \in SerializableItems(data)}
  /\ (last.outcome = "err" /\ last.step = "serialize data item") =>
       /\ \E task \in DOMAIN last.merged : RequiredUnserializable(last.merged[task])
       /\ db = last.base
\* a committed task whose optional non-encodable item was dropped and whose
\* other item was written
C10_OptionalItemDropped ==
  /\ last.outcome = "ok"
  /\ \E task \in DOMAIN last.merged :
       \E k1 \in DOMAIN last.merged[task], k2 \in DOMAIN last.merged[task] :
         /\ Serializable(Item(last.merged[task], k1))
         /\ ~Serializable(Item(last.merged[task], k2))

CountedLookups == {"forward_lookup", "reverse_lookup", "lookup_data"}
\* the key a lookup reads is missing from its view, or its value does not decode
Unreadable(op, view, arg) ==
  IF op = "forward_lookup"
  THEN \/ ~pot_to_vec_task_type(arg).ok
       \/ ~extended_key_get(view.forward_task_cache_db, pot_to_vec_task_type(arg).val, FALSE).ok
  ELSE IF op = "reverse_lookup"
  THEN \/ IntKey(arg) \notin DOMAIN view.reverse_task_cache_db
       \/ ~pot_from_slice_task_type(view.reverse_task_cache_db[IntKey(arg)]).ok
  ELSE \/ IntKey(arg) \notin DOMAIN view.data_db
       \/ ~pot_from_slice_items(view.data_db[IntKey(arg)]).ok

\* C11: a returning forward_lookup, reverse_lookup or lookup_data answers a
\* value or "nothing", never an error; a missing key, a decode failure or an
\* I/O failure answers "nothing"; the store is unchanged; and an answer of
\* "nothing" increments no telemetry counter.
C11_LookupFailuresReadAsAbsent ==
  [][\A t \in Threads :
       (pc[t] \in CountedLookups /\ pc'[t] = "idle") =>
         LET op == pc[t]
             answer == ret'[t].val
         IN  /\ db' = db
             /\ answer = Absent(op) \/ answer = rd[t].expect
             /\ (ret'[t].faulted \/ Unreadable(op, rd[t].view, rd[t].arg))
                  => answer = Absent(op)
             /\ answer = Absent(op) =>
                  /\ restored_cache_entries' = restored_cache_entries
                  /\ restored_tasks' = restored_tasks]_vars
\* an I/O failure turned a stored mapping into "nothing", and nothing was counted
C11_FailureDowngraded ==
  \E t \in Threads :
    /\ ret[t].op = "forward_lookup"
    /\ ret[t].faulted
    /\ ret[t].val = None
    /\ ret[t].expect # None
    /\ restored_cache_entries = 0
    /\ telemetry.cache_found = 0

\* C12: lookup_data of an id with no data record is the empty sequence,
\* forward_lookup of an identity never registered is "nothing", and a record
\* holding the empty sequence reads like no record.
C12_UnknownReadsAsNothing ==
  /\ \A id \in TaskIds :
       IntKey(id) \notin DOMAIN db.data_db => lookup_data(db, id, "none") = << >>
  /\ \A tt \in TaskTypes :
       (\A p \in registered : p.task_type # tt)
         => forward_lookup_task_cache(db, tt, "none") = None
  /\ \A id \in TaskIds :
       (/\ IntKey(id) \in DOMAIN db.data_db
        /\ db.data_db[IntKey(id)] = pot_to_vec_items(<< >>).val)
         => lookup_data(db, id, "none") = << >>
\* the long identity is registered and the short one sharing its native key
\* is not; task 1 holds an empty record and task 2 none
C12_EmptyRecordAndUnregistered ==
  /\ registered # {}
  /\ \A p \in registered : p.task_type = "fnB"
  /\ IntKey(1) \in DOMAIN db.data_db
  /\ db.data_db[IntKey(1)] = pot_to_vec_items(<< >>).val
  /\ IntKey(2) \notin DOMAIN db.data_db

\* stored values that are not a 4-byte counter, resp. not an encoded journal
CorruptCounters == {<< >>, <<1>>, <<0, 0, 1>>, <<0, 0, 0, 0, 1>>}
CorruptJournals == {<< >>, <<2, 1>>, <<1, 9>>}
WithMeta(store, key, bytes) ==
  [store EXCEPT !.meta_db = tx_put(store.meta_db, IntKey(key), bytes)]

\* C13: next_free_task_id answers the committed counter when one is stored
\* and 1 when it is absent, unreadable or not 4 bytes; uncompleted_operations
\* answers the empty list when the journal is absent, unreadable or corrupt.
C13_MetaReadsDefault ==
  LET counter == IntKey(META_KEY_NEXT_FREE_TASK_ID)
      journal == IntKey(META_KEY_OPERATIONS)
  IN  /\ next_free_task_id(db, "none") =
           (IF counter \in DOMAIN db.meta_db THEN from_be_bytes(db.meta_db[counter]) ELSE 1)
      /\ \A fault \in {"begin", "get"} :
           /\ next_free_task_id(db, fault) = 1
           /\ uncompleted_operations(db, fault) = << >>
      /\ \A bytes \in CorruptCounters :
           next_free_task_id(WithMeta(db, META_KEY_NEXT_FREE_TASK_ID, bytes), "none") = 1
      /\ journal \notin DOMAIN db.meta_db => uncompleted_operations(db, "none") = << >>
      /\ \A bytes \in CorruptJournals :
           uncompleted_operations(WithMeta(db, META_KEY_OPERATIONS, bytes), "none") = << >>
      /\ \A t \in Threads :
           /\ ret[t].op = "next_free_task_id" =>
                ret[t].val = (IF ret[t].faulted THEN 1 ELSE ret[t].expect)
           /\ ret[t].op = "uncompleted_operations" =>
                ret[t].val = (IF ret[t].faulted THEN << >> ELSE ret[t].expect)
\* a next_free_task_id call that could not read a stored counter above 1
C13_CounterUnreadable ==
  \E t \in Threads :
    /\ ret[t].op = "next_free_task_id"
    /\ ret[t].faulted
    /\ ret[t].val = 1
    /\ ret[t].expect > 1

\* where a thread is while its save_snapshot holds the write transaction
InWriteTxn == {"snap_regs", "snap_merge", "snap_write"}
\* C14: at most one read-write transaction is open; nothing commits while a
\* save_snapshot transaction is open, so concurrent calls run one after the
\* other in commit order; and a call that waited for an earlier one builds
\* on what that one committed: the counter does not go back and every task's record is the
\* committed record with the deltas applied.
C14_ConcurrentSnapshotsSerialize ==
  /\ Cardinality({t \in Threads : pc[t] \in InWriteTxn \cup {"next_free_task_id"}}) <= 1
  /\ \A t \in Threads : pc[t] \in InWriteTxn => (writer = t /\ wtx.base = db)
  /\ (last.outcome = "ok" /\ last.later) =>
       /\ next_free_task_id(db, "none") >= next_free_task_id(last.base, "none")
       /\ \A task \in DOMAIN last.merged : last.merged[task] = last.expected[task]

\* C15: save_snapshot is the only operation that opens a read-write
\* transaction, and a read operation can start while a save_snapshot
\* transaction is open.
C15_ReadsNeverTakeWriteLock ==
  /\ \A t \in Threads : writer = t => pc[t] \in InWriteTxn
  /\ \A t \in Threads :
       (/\ pc[t] = "idle"
        /\ t \in workload.readers
        /\ "next_free_task_id" \in workload.lookups
        /\ \E u \in Threads : pc[u] \in InWriteTxn)
         => ENABLED NextFreeBegin(t)

\* C16: every lookup that found something is either still in its counter or
\* in the value one save_snapshot reported; a lookup that finds something
\* adds exactly 1 to its counter; a save_snapshot call resets each counter
\* before it opens its transaction.
C16_TelemetryConserved ==
  /\ [](/\ telemetry.cache_found = telemetry.cache_reported + restored_cache_entries
        /\ telemetry.tasks_found = telemetry.tasks_reported + restored_tasks)
  /\ [][\A t \in Threads :
          /\ (pc[t] \in {"forward_lookup", "reverse_lookup"} /\ pc'[t] = "idle"
                /\ ret'[t].val # None)
               => /\ restored_cache_entries' = restored_cache_entries + 1
                  /\ restored_tasks' = restored_tasks
          /\ (pc[t] = "lookup_data" /\ pc'[t] = "idle" /\ ret'[t].val # << >>)
               => /\ restored_tasks' = restored_tasks + 1
                  /\ restored_cache_entries' = restored_cache_entries
          /\ (pc[t] = "idle" /\ pc'[t] = "snap_drain") => restored_cache_entries' = 0
          /\ (pc[t] = "snap_drain" /\ pc'[t] # "snap_drain") => restored_tasks' = 0
          /\ (pc[t] \notin InWriteTxn /\ pc'[t] \in InWriteTxn) => pc[t] = "snap_begin"]_vars
\* one found lookup was reported by a save_snapshot and a later one is
\* still in the counter
C16_ReportedAndPending ==
  /\ telemetry.cache_reported >= 1
  /\ restored_cache_entries >= 1

Permuted(regs, order) == [i \in 1..Len(regs) |-> regs[order[i]]]
\* what the batch, taken in the given order, leaves in the task cache and counter
Registered(store, start, regs) ==
  LET result == register_all(store, start, regs)
  IN  [forward |-> result.tx.forward_task_cache_db,
       reverse |-> result.tx.reverse_task_cache_db,
       next_free |-> result.next_task_id]
\* every order of the last committed batch gives what was committed
EveryOrderGivesCommitted ==
  LET start == IF "counter" \in last.swallowed THEN 1
               ELSE next_free_task_id(last.base, "none")
  IN  \A order \in Orders(1..Len(last.regs)) :
        Registered(last.base, start, Permuted(last.regs, order))
          = [forward |-> db.forward_task_cache_db,
             reverse |-> db.reverse_task_cache_db,
             next_free |-> next_free_task_id(db, "none")]
OneToOne(regs) ==
  \A i \in 1..Len(regs), j \in 1..Len(regs) :
    (regs[i].task_type = regs[j].task_type) <=> (regs[i].task_id = regs[j].task_id)

\* C17 as written: the committed task cache and counter are the same for
\* every permutation of the registration batch.
C17_OrderIrrelevant ==
  last.outcome = "ok" => EveryOrderGivesCommitted
\* C17: the committed task cache and counter are the same for every
\* permutation of a registration batch that pairs no identity with two ids
\* and no id with two identities.
C17_OrderIrrelevantOneToOne ==
  (last.outcome = "ok" /\ OneToOne(last.regs)) => EveryOrderGivesCommitted
\* a committed batch of two different pairs, the larger id first
C17_TwoPairsLargerFirst ==
  /\ last.outcome = "ok"
  /\ OneToOne(last.regs)
  /\ Len(last.regs) >= 2
  /\ last.regs[1].task_id > last.regs[2].task_id

\* C18: a thread that is not inside a public operation holds no transaction:
\* neither the write transaction nor a read transaction; with no operation
\* executing, no transaction is open.
C18_NoTransactionOutlivesItsCall ==
  /\ \A t \in Threads : pc[t] = "idle" => (writer # t /\ rd[t] = IdleRd)
  /\ (\A t \in Threads : pc[t] = "idle") => (writer = 0 /\ wtx = IdleTxn)
  /\ writer # 0 => pc[writer] \in InWriteTxn \cup {"next_free_task_id"}
\* nothing is executing after a save_snapshot that failed with writes issued
\* and a lookup that returned
C18_IdleAfterFailure ==
  /\ \A t \in Threads : pc[t] = "idle"
  /\ last.outcome = "err"
  /\ last.dirty
  /\ \E t \in Threads : ret[t].op # "none"

\* the logical keys of the forward task cache: native key and remainder
ForwardEntries(store) ==
  UNION {{<<p, r>> : r \in DOMAIN store.forward_task_cache_db[p]} :
           p \in DOMAIN store.forward_task_cache_db}

\* C19: no step removes a key of any key space, and what resolved before
\* still resolves; a task named by a delta of a committed snapshot has a data
\* record afterwards, holding the empty sequence if nothing is left.
C19_NoKeyRemoved ==
  /\ [][/\ DOMAIN db.meta_db \subseteq DOMAIN db'.meta_db
        /\ DOMAIN db.data_db \subseteq DOMAIN db'.data_db
        /\ DOMAIN db.reverse_task_cache_db \subseteq DOMAIN db'.reverse_task_cache_db
        /\ ForwardEntries(db) \subseteq ForwardEntries(db')
        /\ \A tt \in EncodableTypes :
             forward_lookup_task_cache(db, tt, "none") # None
               => forward_lookup_task_cache(db', tt, "none") # None
        /\ \A id \in TaskIds :
             reverse_lookup_task_cache(db, id, "none") # None
               => reverse_lookup_task_cache(db', id, "none") # None]_vars
  /\ [](last.outcome = "ok" =>
          \A task \in DOMAIN last.merged :
            /\ IntKey(task) \in DOMAIN db.data_db
            /\ last.merged[task] = << >>
                 => db.data_db[IntKey(task)] = pot_to_vec_items(<< >>).val)
\* a registered task whose only item was removed: empty record, still resolvable
C19_EmptiedTaskKept ==
  /\ last.outcome = "ok"
  /\ 1 \in DOMAIN last.merged
  /\ last.merged[1] = << >>
  /\ lookup_data(last.base, 1, "none") # << >>
  /\ db.data_db[IntKey(1)] = pot_to_vec_items(<< >>).val
  /\ reverse_lookup_task_cache(db, 1, "none") = Some("fnB")
  /\ forward_lookup_task_cache(db, "fnB", "none") = Some(1)

ReadOperations ==
  {"next_free_task_id", "uncompleted_operations", "forward_lookup", "reverse_lookup",
   "lookup_data"}
\* an entry of a key space: its value, or nothing
Entry(map, key) == IF key \in DOMAIN map THEN Some(map[key]) ELSE None
ForwardEntry(store, e) ==
  IF e \in ForwardEntries(store) THEN Some(store.forward_task_cache_db[e[1]][e[2]]) ELSE None
\* the forward entries and the ids a registration batch names
BatchForwardEntries(regs) ==
  {<<PhysicalKey(TaskTypeBytes(regs[i].task_type)), KeyRest(TaskTypeBytes(regs[i].task_type))>> :
     i \in 1..Len(regs)}
BatchIds(regs) == {regs[i].task_id : i \in 1..Len(regs)}

\* C20: the store changes only by the commit of a successful save_snapshot,
\* which leaves alone every forward entry of an identity and every reverse
\* entry of an id outside its registration batch and every data record of a
\* task no delta names, and keeps only the journal and the counter in meta;
\* no step of a read operation changes the store.
C20_SnapshotFrame ==
  [][/\ db' # db =>
          /\ \E t \in Threads : pc[t] \in InWriteTxn /\ pc'[t] = "idle"
          /\ last'.outcome = "ok"
          /\ \A e \in (ForwardEntries(db) \cup ForwardEntries(db'))
                        \ BatchForwardEntries(last'.regs) :
               ForwardEntry(db', e) = ForwardEntry(db, e)
          /\ \A id \in TaskIds \ BatchIds(last'.regs) :
               Entry(db'.reverse_task_cache_db, IntKey(id))
                 = Entry(db.reverse_task_cache_db, IntKey(id))
          /\ \A id \in TaskIds \ DOMAIN last'.merged :
               Entry(db'.data_db, IntKey(id)) = Entry(db.data_db, IntKey(id))
          /\ DOMAIN db'.reverse_task_cache_db \subseteq {IntKey(id) : id \in TaskIds}
          /\ DOMAIN db'.data_db \subseteq {IntKey(id) : id \in TaskIds}
          /\ DOMAIN db'.meta_db
               \subseteq {IntKey(META_KEY_OPERATIONS), IntKey(META_KEY_NEXT_FREE_TASK_ID)}
     /\ (\E t \in Threads : (pc[t] \in ReadOperations \/ pc'[t] \in ReadOperations)
                             /\ pc'[t] # pc[t])
          => db' = db]_vars
\* a committed snapshot that registered a pair next to a forward entry and a
\* reverse entry it did not name
C20_ChangedBesideOthers ==
  /\ last.outcome = "ok"
  /\ db # last.base
  /\ Len(last.regs) > 0
  /\ ForwardEntries(last.base) \ BatchForwardEntries(last.regs) # {}
  /\ \E id \in TaskIds \ BatchIds(last.regs) :
       IntKey(id) \in DOMAIN last.base.reverse_task_cache_db

====
